---- MODULE Spec2Model ----
(***************************************************************************)
(* Agent registry and tool-dispatch core: token authentication, tool       *)
(* resolution, webhook dispatch, the ToolCall / Payment state machine.     *)
(*                                                                         *)
(* The persistent store is the only shared state.  Every handler runs in   *)
(* its own session; a commit is one atomic step, and a handler that        *)
(* commits twice or suspends on the outbound webhook is several steps.     *)
(*                                                                         *)
(* The source holds several drafts of the Agent entity: mcp_server.py      *)
(* reads tool_schema / pricing / webhook_url, server.py reads              *)
(* toolCallsExampleJson / price / webhookUrl, routes/agents.py writes      *)
(* price.  The model keeps one agent record: price is the pricing value,   *)
(* webhookUrl the endpoint, tool_schema the declared tools, and            *)
(* toolCallsExampleJson the shape of the text that server.py parses.       *)
(***************************************************************************)
EXTENDS Integers, Sequences, FiniteSets, TLC

\* ---------------------------------------------------------------- bounds
MaxCalls == 1
MaxTokens == 1
MaxPayments == 2
MaxTime == 3
NumDispatch == 1
NumFinal == 2

\* ------------------------------------------------------------- constants
DefaultExpiresInDays == 30
WeiDecimals == 18

\* ------------------------------------------------------------ value sets
AgentIds == {"a1", "a2"}            \* the agents registered at the start
NewAgentIds == {"a3"}               \* the ids uuid4 gives to new agents
UnknownAgent == "a9"
ToolNames == {"add", "sub", "mul"}
UserIds == {"u1"}
\* caller_user_id arguments of agent_call_tool: any string
CallerInputs == UserIds \cup {"u2"}
NoTime == 0                       \* a NULL DateTime column
None == <<"None">>                \* a NULL JSON column / Python None
Dispatchers == 1..NumDispatch
Finalizers == 1..NumFinal

\* price strings a request may carry (Agent.price is a String column)
PriceStrings == {"0", "1", "2", "abc"}
PriceInputs == {"0", "2", "abc"}
valid_types == {"per-use", "subscription", "free", "one-time"}

\* shapes of Agent.toolCallsExampleJson, the text server.py parses
\*   "object"     a JSON object whose available_tools lists tool_schema
\*   "no_key"     a JSON object without available_tools
\*   "malformed"  text that is not JSON
\*   "null"       the column is NULL
\*   "non_object" JSON that is not an object (a list, a string)
JsonShapes == {"object", "no_key", "malformed", "null", "non_object"}

\* payloads a caller passes to tool_call_finalize (Dict[str, Any])
Payloads == {<<"payload", "r1">>, <<"payload", "r2">>}

\* raw webhook response bodies
Bodies == {"{\"result\":42}", "[1]", "null", "<html>"}

\* agents, tokens, tool_calls, payments: the four tables of the store
\* tools_cache: the DynamicTool objects held by the MCP server process
\* now:   the clock read by datetime.utcnow()
\* task:  the position of each dispatch request in flight
\* fin:   the position of each tool_call_finalize request in flight
\* audit: history, one entry per ToolCall: the dispatch that created it,
\*        the webhook requests sent for it, its successful finalize calls,
\*        whether its dispatch died between its two commits
VARIABLES agents, tokens, tool_calls, payments, tools_cache, now,
          task, fin, audit

vars == <<agents, tokens, tool_calls, payments, tools_cache, now,
          task, fin, audit>>

\* ------------------------------------------------------- pure functions
\* float(s) of a price string; raises ValueError on non-numeric text
IsNumeric(s) == s \in {"0", "1", "2"}
float(s) == CASE s = "0" -> 0 [] s = "1" -> 1 [] s = "2" -> 2 [] OTHER -> -1

\* <<mantissa, negative decimal exponent>>: the value mantissa / 10^exp
cost_in_eth(price) == <<float(price), WeiDecimals>>
pricing_cost(price) == <<float(price), 0>>

\* response.json(): the parsed body; "null" parses to None
JsonParses(body) == body # "<html>"
response_json(body) == IF body = "null" THEN None ELSE <<"json", body>>

IdleTask == [pc |-> "idle", entry |-> "", tc |-> 0, agent |-> "", url |-> FALSE]
IdleFin == [pc |-> "idle", tc |-> 0, result |-> None]

\* ----------------------------------------------------------- repository
ToolCallIds == 1..Len(tool_calls)
PaymentIds == 1..Len(payments)
TokenIds == 1..Len(tokens)

\* db.query(Agent).filter(Agent.id == id, Agent.is_active == True).first()
ActiveAgent(id) == id \in DOMAIN agents /\ agents[id].is_active

\* db.query(Token).filter(Token.token == t, Token.is_active == True).first()
TokenRecordFound(t) == t \in TokenIds /\ tokens[t].is_active

Expired(t) == tokens[t].expires_at # NoTime /\ tokens[t].expires_at < now

\* load_agents: one DynamicTool per (active agent, declared tool), holding
\* the agent row as it was read at load time
LoadedTools ==
    UNION { { [agent |-> a, tool |-> t, pricing |-> agents[a].price,
               webhook_url |-> agents[a].webhookUrl] :
              t \in agents[a].tool_schema } :
            a \in {x \in DOMAIN agents : agents[x].is_active} }

\* ------------------------------------------------------------------ Init
\* the row register_agent stores: agentOwner is the literal of line 84
AgentRow(price, url, tools, shape) ==
    [is_active |-> TRUE, price |-> price, webhookUrl |-> url,
     tool_schema |-> tools, toolCallsExampleJson |-> shape,
     agentOwner |-> "0xxx....."]

\* the second agent as registered: with or without an endpoint, and with
\* each shape of available-tools text
AgentVariants ==
    {[url |-> FALSE, shape |-> "object"]}
    \cup {[url |-> TRUE, shape |-> sh] : sh \in JsonShapes}

Init ==
    /\ \E c \in AgentVariants :
         agents = [a \in AgentIds |->
                     IF a = "a1" THEN AgentRow("1", TRUE, {"add"}, "object")
                     ELSE AgentRow("2", c.url, {"add", "sub"}, c.shape)]
    /\ tokens = <<>>
    /\ tool_calls = <<>>
    /\ payments = <<>>
    /\ tools_cache = LoadedTools
    /\ now = NoTime + 2
    /\ task = [d \in Dispatchers |-> IdleTask]
    /\ fin = [f \in Finalizers |-> IdleFin]
    /\ audit = <<>>

\* ------------------------------------------------------- token issuance
\* routes/mcp.py create_token.  days: [given, null, n]; an absent field
\* takes the TokenRequest default, an explicit null stays None
expires_in_days(days) == IF days.given THEN days.n ELSE DefaultExpiresInDays

DaysInputs == {[given |-> FALSE, null |-> FALSE, n |-> 0],
               [given |-> TRUE, null |-> TRUE, n |-> 0],
               [given |-> TRUE, null |-> FALSE, n |-> 0],
               [given |-> TRUE, null |-> FALSE, n |-> 1],
               [given |-> TRUE, null |-> FALSE, n |-> -1]}

\* "if token_request.expires_in_days:" is false for None and for 0
token_expires_at(days) ==
    IF (days.given /\ days.null) \/ expires_in_days(days) = 0
    THEN NoTime ELSE now + expires_in_days(days)

\* create_token looking the agent up without the is_active filter
create_token_status_NoFilter(agent_id) ==
    IF agent_id \notin DOMAIN agents THEN "404 Agent not found" ELSE "ok"

\* the response of create_token
create_token_status(agent_id) ==
    IF ~ActiveAgent(agent_id) THEN "404 Agent not found" ELSE "ok"

create_token(agent_id, user_id, days) ==
    /\ IF create_token_status(agent_id) # "ok"
       THEN UNCHANGED tokens
       ELSE /\ Len(tokens) < MaxTokens
            /\ tokens' = Append(tokens,
                   [agent_id |-> agent_id, user_id |-> user_id,
                    is_active |-> TRUE, expires_at |-> token_expires_at(days)])
    /\ UNCHANGED <<agents, tool_calls, payments, tools_cache, now, task, fin, audit>>

\* ------------------------------------------------------ agent lifecycle
AddressLength == 42

\* agentOwner values of a request: absent, or a string described by whether
\* it starts with "0x", its length, and whether its digits are hexadecimal
Owners ==
    {[given |-> FALSE, prefix |-> FALSE, length |-> 0, hex |-> FALSE]}
    \cup {[given |-> TRUE, prefix |-> p, length |-> l, hex |-> h] :
            p \in BOOLEAN, l \in {AddressLength - 1, AddressLength}, h \in BOOLEAN}

\* the text of an agentOwner value: 42 characters after a well-formed one,
\* never the 9 characters of the literal of line 84
OwnerText(o) ==
    IF ~o.given THEN ""
    ELSE IF o.prefix /\ o.length = AddressLength
         THEN (IF o.hex THEN "0x<40 hex digits>" ELSE "0x<40 characters>")
    ELSE "<malformed>"

\* AgentRegisterRequest bodies.  missing: a required field is absent from
\* the body; name "": the field is there and empty; endpoints: how many
RegisterInputs ==
    [missing : BOOLEAN, name : {"bot", ""}, price : PriceInputs,
     type : {"per-use", "bogus"}, endpoints : {0, 1}, agentOwner : Owners]

\* routes/agents.py register_agent, lines 28-53: the HTTPException the
\* checks raise, or "ok"
register_validation(req) ==
    IF req.name = "" THEN "400 Missing required fields"
    ELSE IF ~IsNumeric(req.price) THEN "400 Price must be a valid number"
    ELSE IF float(req.price) <= 0 THEN "400 Price must be greater than 0"
    ELSE IF req.type \notin valid_types THEN "400 Invalid agent type"
    ELSE IF req.endpoints = 0 THEN "400 At least one endpoint is required"
    ELSE IF req.agentOwner.given
            /\ (~req.agentOwner.prefix \/ req.agentOwner.length # AddressLength)
         THEN "400 Invalid Ethereum address format"
    ELSE "ok"

\* routes/agents.py register_agent: the response.  A body without a
\* required field is refused by the request model before the handler runs;
\* the handler's only except clause, "except Exception", also catches the
\* HTTPException its checks raise and answers 500
register_agent_status(req) ==
    IF req.missing THEN "422 Unprocessable Entity"
    ELSE IF register_validation(req) # "ok" THEN "500 Server error"
    ELSE "ok"

\* routes/agents.py register_agent.  The new agent declares one tool and
\* has an endpoint
register_agent(req, agent_id) ==
    /\ agent_id \in NewAgentIds \ DOMAIN agents
    /\ agents' = IF register_agent_status(req) # "ok" THEN agents
                 ELSE agents @@ (agent_id :> AgentRow(req.price, TRUE, {"add"}, "object"))
    /\ UNCHANGED <<tokens, tool_calls, payments, tools_cache, now, task, fin, audit>>

\* routes/agents.py update_agent: the response.  The lookup has no
\* is_active filter
update_agent_status(agent_id, price, type) ==
    IF agent_id \notin DOMAIN agents THEN "404 Agent not found"
    ELSE IF ~IsNumeric(price) THEN "400 Price must be a valid number"
    ELSE IF float(price) <= 0 THEN "400 Price must be greater than 0"
    ELSE IF type \notin valid_types THEN "400 Invalid agent type"
    ELSE "ok"

\* an update that brings a soft-deleted agent back
update_agent_Reactivates(agent_id, price, type) ==
    /\ agents' = IF update_agent_status(agent_id, price, type) = "ok"
                 THEN [agents EXCEPT ![agent_id].price = price,
                                     ![agent_id].is_active = TRUE]
                 ELSE agents
    /\ UNCHANGED <<tokens, tool_calls, payments, tools_cache, now, task, fin, audit>>

\* routes/agents.py update_agent: is_active is not among the assigned fields
update_agent(agent_id, price, type) ==
    /\ agents' = IF update_agent_status(agent_id, price, type) = "ok"
                 THEN [agents EXCEPT ![agent_id].price = price]
                 ELSE agents
    /\ UNCHANGED <<tokens, tool_calls, payments, tools_cache, now, task, fin, audit>>

\* routes/agents.py delete_agent: soft delete
delete_agent(agent_id) ==
    /\ agents' = IF agent_id \notin DOMAIN agents THEN agents
                 ELSE [agents EXCEPT ![agent_id].is_active = FALSE]
    /\ UNCHANGED <<tokens, tool_calls, payments, tools_cache, now, task, fin, audit>>

\* routes/agents.py get_agent: the response
get_agent_status(agent_id) ==
    IF ~ActiveAgent(agent_id) THEN "404 Agent not found" ELSE "ok"

\* routes/agents.py list_agents without filters, server.py agent_list: the
\* agents returned
listed_agents == {a \in DOMAIN agents : agents[a].is_active}

\* routes/agents.py list_agents with agent_owner given: the agents returned
listed_by_owner(agent_owner) ==
    {a \in listed_agents : agents[a].agentOwner = agent_owner}

\* the two reads write nothing
get_agent(agent_id) ==
    /\ get_agent_status(agent_id) = "ok" <=> agent_id \in listed_agents
    /\ UNCHANGED vars

list_agents ==
    /\ listed_agents \subseteq DOMAIN agents
    /\ UNCHANGED vars

\* mcp_server.py reload_agents: clear the caches, load again
reload_agents ==
    /\ tools_cache' = LoadedTools
    /\ UNCHANGED <<agents, tokens, tool_calls, payments, now, task, fin, audit>>

\* datetime.utcnow() advances
Tick ==
    /\ now < MaxTime
    /\ now' = now + 1
    /\ UNCHANGED <<agents, tokens, tool_calls, payments, tools_cache, task, fin, audit>>

\* ------------------------------------------------------------- dispatch
\* auth_middleware with an expiry test that cannot compare a NULL expiry
auth_middleware_NaiveExpiry(bearer, method) ==
    IF bearer = 0 THEN "Missing or invalid Authorization header"
    ELSE IF method = "" THEN "Missing method in request"
    ELSE IF ~TokenRecordFound(bearer) THEN "Invalid or expired token"
    ELSE IF tokens[bearer].expires_at = NoTime THEN "Authentication failed"
    ELSE IF tokens[bearer].expires_at < now THEN "Invalid or expired token"
    ELSE IF ~ActiveAgent(tokens[bearer].agent_id) THEN "Agent not found or inactive"
    ELSE IF method \notin agents[tokens[bearer].agent_id].tool_schema
         THEN "Tool not found for this agent"
    ELSE "ok"

\* auth_middleware resolving the agent in the loaded cache, not the store
auth_middleware_Cached(bearer, method) ==
    IF bearer = 0 THEN "Missing or invalid Authorization header"
    ELSE IF method = "" THEN "Missing method in request"
    ELSE IF ~TokenRecordFound(bearer) THEN "Invalid or expired token"
    ELSE IF \A e \in tools_cache : e.agent # tokens[bearer].agent_id
         THEN "Agent not found or inactive"
    ELSE IF method \notin agents[tokens[bearer].agent_id].tool_schema
         THEN "Tool not found for this agent"
    ELSE "ok"

\* mcp_server.py auth_middleware: the error raised, or "ok".  bearer 0: no
\* "Bearer " header; method "": the envelope has no method.  The token
\* query filters on the token string and is_active only.
auth_middleware(bearer, method) ==
    IF bearer = 0 THEN "Missing or invalid Authorization header"
    ELSE IF method = "" THEN "Missing method in request"
    ELSE IF ~TokenRecordFound(bearer) THEN "Invalid or expired token"
    ELSE IF ~ActiveAgent(tokens[bearer].agent_id) THEN "Agent not found or inactive"
    ELSE IF method \notin agents[tokens[bearer].agent_id].tool_schema
         THEN "Tool not found for this agent"
    ELSE "ok"

\* request.context of an authenticated request
auth_context(bearer) ==
    [agent |-> tokens[bearer].agent_id, user_id |-> tokens[bearer].user_id]

\* the DynamicTool objects the server may route a method to: the tools are
\* registered under their tool name
RoutedTools(method) == {e \in tools_cache : e.tool = method}

\* a ToolCall stored as already completed
NewToolCall_Prefilled(agent_id, caller, tool, cost) ==
    [agent_id |-> agent_id, caller_user_id |-> caller, tool_name |-> tool,
     result |-> None, cost |-> cost, payment_status |-> "pending",
     completed_at |-> now]

NewToolCall(agent_id, caller, tool, cost) ==
    [agent_id |-> agent_id, caller_user_id |-> caller, tool_name |-> tool,
     result |-> None, cost |-> cost, payment_status |-> "pending",
     completed_at |-> NoTime]

\* what the dispatch that created a ToolCall was: its entry point, its
\* bearer token, the agent it was for and the state of both at that time
NewAudit(entry, bearer, for_agent, tool) ==
    [entry |-> entry, bearer |-> bearer, for_agent |-> for_agent,
     expired |-> IF bearer \in TokenIds THEN Expired(bearer) ELSE FALSE,
     for_active |-> IF for_agent \in DOMAIN agents
                    THEN agents[for_agent].is_active ELSE FALSE,
     declared |-> IF for_agent \in DOMAIN agents
                  THEN tool \in agents[for_agent].tool_schema ELSE FALSE,
     sends |-> <<>>, fin_ok |-> 0, crashed |-> FALSE]

\* auth_middleware, then DynamicTool.call up to the first commit
DynamicTool_call(d, bearer, method) ==
    /\ task[d].pc = "idle"
    /\ IF auth_middleware(bearer, method) # "ok" \/ RoutedTools(method) = {}
       THEN UNCHANGED <<tool_calls, task, audit>>
       ELSE \E e \in RoutedTools(method) :
            /\ Len(tool_calls) < MaxCalls
            /\ tool_calls' = Append(tool_calls,
                   NewToolCall(e.agent, auth_context(bearer).user_id,
                               e.tool, pricing_cost(e.pricing)))
            /\ audit' = Append(audit,
                   NewAudit("mcp", bearer, auth_context(bearer).agent, method))
            /\ task' = [task EXCEPT ![d] =
                   [pc |-> "created", entry |-> "mcp",
                    tc |-> Len(tool_calls) + 1, agent |-> e.agent,
                    url |-> e.webhook_url]]
    /\ UNCHANGED <<agents, tokens, payments, tools_cache, now, fin>>

\* agent_call_tool with the parse guarded by "except Exception: pass"
resolve_status_FailOpen(agent_id, tool_name) ==
    IF ~ActiveAgent(agent_id) THEN "Agent not found"
    ELSE LET shape == agents[agent_id].toolCallsExampleJson
             available_tools == IF shape = "object"
                                THEN agents[agent_id].tool_schema ELSE {}
         IN  IF shape \in {"object", "no_key"} /\ tool_name \notin available_tools
             THEN "Tool not found in agent's available tools"
             ELSE IF ~IsNumeric(agents[agent_id].price) THEN "error"
             ELSE "ok"

\* server.py agent_call_tool, lines 188-212: the error returned before any
\* record is created, or "ok".  json.loads raises JSONDecodeError on
\* malformed text (caught, the call proceeds), TypeError on None, and .get
\* raises AttributeError on a non-object (both reach the outer handler)
resolve_status(agent_id, tool_name) ==
    IF ~ActiveAgent(agent_id) THEN "Agent not found"
    ELSE LET shape == agents[agent_id].toolCallsExampleJson
             available_tools == IF shape = "object"
                                THEN agents[agent_id].tool_schema ELSE {}
         IN  IF shape \in {"null", "non_object"} THEN "error"
             ELSE IF shape # "malformed" /\ tool_name \notin available_tools
                  THEN "Tool not found in agent's available tools"
             ELSE IF ~IsNumeric(agents[agent_id].price) THEN "error"
             ELSE "ok"

\* server.py agent_call_tool up to the first commit
agent_call_tool(d, agent_id, tool_name, caller_user_id) ==
    /\ task[d].pc = "idle"
    /\ IF resolve_status(agent_id, tool_name) # "ok"
       THEN UNCHANGED <<tool_calls, task, audit>>
       ELSE /\ Len(tool_calls) < MaxCalls
            /\ tool_calls' = Append(tool_calls,
                   NewToolCall(agent_id, caller_user_id, tool_name,
                               cost_in_eth(agents[agent_id].price)))
            /\ audit' = Append(audit, NewAudit("tool", 0, agent_id, tool_name))
            /\ task' = [task EXCEPT ![d] =
                   [pc |-> "created", entry |-> "tool",
                    tc |-> Len(tool_calls) + 1, agent |-> agent_id,
                    url |-> FALSE]]
    /\ UNCHANGED <<agents, tokens, payments, tools_cache, now, fin>>

\* the endpoint the dispatch reads after the first commit: DynamicTool
\* holds the row loaded by load_agents, agent_call_tool's session reloads
\* the expired row
webhook_configured(d) ==
    IF task[d].entry = "mcp" THEN task[d].url
    ELSE agents[task[d].agent].webhookUrl

\* step 4 that also recomputes the cost from the agent's current price
step4_write_Reprice(tc, result) ==
    [tc EXCEPT !.result = IF result = None THEN @ ELSE result,
               !.completed_at = now,
               !.cost = cost_in_eth(agents[tc.agent_id].price)]

\* step 4: tool_call.result = result; completed_at = utcnow(); commit.  The
\* record was loaded with result NULL, so assigning None leaves the column
\* out of the UPDATE
step4_write(tc, result) ==
    [tc EXCEPT !.result = IF result = None THEN @ ELSE result,
               !.completed_at = now]

\* requests.post is issued
send_webhook(d) ==
    /\ task[d].pc = "created"
    /\ webhook_configured(d)
    /\ task' = [task EXCEPT ![d].pc = "waiting"]
    /\ audit' = [audit EXCEPT ![task[d].tc].sends = Append(@, task[d].agent)]
    /\ UNCHANGED <<agents, tokens, tool_calls, payments, tools_cache, now, fin>>

\* a dispatch that returns without storing the no-endpoint result
no_webhook_Skip(d) ==
    /\ task[d].pc = "created"
    /\ ~webhook_configured(d)
    /\ task' = [task EXCEPT ![d] = IdleTask]
    /\ UNCHANGED <<agents, tokens, tool_calls, payments, tools_cache, now, fin, audit>>

\* no endpoint: the error result is stored without network I/O
no_webhook(d) ==
    /\ task[d].pc = "created"
    /\ ~webhook_configured(d)
    /\ tool_calls' = [tool_calls EXCEPT ![task[d].tc] =
           step4_write(@, <<"error", "No webhook configured for this agent">>)]
    /\ task' = [task EXCEPT ![d] = IdleTask]
    /\ UNCHANGED <<agents, tokens, payments, tools_cache, now, fin, audit>>

\* the outcome of requests.post when the endpoint cannot be reached
TransportFailure == [transport |-> TRUE, code |-> "", body |-> ""]

\* the outcomes of requests.post: a transport failure or a response
WebhookOutcomes ==
    {[transport |-> FALSE, code |-> "200", body |-> b] : b \in Bodies}
    \cup {[transport |-> FALSE, code |-> "201", body |-> "{\"result\":42}"],
          [transport |-> FALSE, code |-> "500", body |-> "<html>"],
          TransportFailure}

\* call_webhook letting a transport failure propagate to the caller
call_webhook_TransportRaises(entry, o, json_is_request_error) ==
    IF o.transport THEN <<"raise">>
    ELSE IF o.code # "200"
         THEN <<"error", "Webhook call failed with status", o.code, "details", o.body>>
    ELSE IF JsonParses(o.body) THEN response_json(o.body)
    ELSE IF json_is_request_error
         THEN <<"error", "Webhook request failed", "JSONDecodeError">>
    ELSE IF entry = "mcp" THEN <<"error", "Webhook execution error">>
    ELSE <<"raise">>

\* call_webhook taking every 2xx status as success
call_webhook_Any2xx(entry, o, json_is_request_error) ==
    IF o.transport THEN <<"error", "Webhook request failed", "ConnectionError">>
    ELSE IF o.code \notin {"200", "201"}
         THEN <<"error", "Webhook call failed with status", o.code, "details", o.body>>
    ELSE IF JsonParses(o.body) THEN response_json(o.body)
    ELSE IF json_is_request_error
         THEN <<"error", "Webhook request failed", "JSONDecodeError">>
    ELSE IF entry = "mcp" THEN <<"error", "Webhook execution error">>
    ELSE <<"raise">>

\* the result the dispatcher builds; the third element of a "Webhook
\* request failed" error is its cause.  json_is_request_error: whether the
\* installed requests raises its JSON error as a RequestException
\* (requests >= 2.27) or as a plain ValueError
call_webhook(entry, o, json_is_request_error) ==
    IF o.transport THEN <<"error", "Webhook request failed", "ConnectionError">>
    ELSE IF o.code # "200"
         THEN <<"error", "Webhook call failed with status", o.code, "details", o.body>>
    ELSE IF JsonParses(o.body) THEN response_json(o.body)
    ELSE IF json_is_request_error
         THEN <<"error", "Webhook request failed", "JSONDecodeError">>
    ELSE IF entry = "mcp" THEN <<"error", "Webhook execution error">>
    ELSE <<"raise">>

\* a dispatcher that goes back to send the request again after a failure
webhook_return_Retry(d, o, json_is_request_error) ==
    LET result == call_webhook(task[d].entry, o, json_is_request_error)
    IN  /\ task[d].pc = "waiting"
        /\ tool_calls' = IF result = <<"raise">> \/ o.transport THEN tool_calls
                         ELSE [tool_calls EXCEPT ![task[d].tc] = step4_write(@, result)]
        /\ task' = IF o.transport THEN [task EXCEPT ![d].pc = "created"]
                   ELSE [task EXCEPT ![d] = IdleTask]
        /\ UNCHANGED <<agents, tokens, payments, tools_cache, now, fin, audit>>

\* the webhook call returns; the dispatch stores the result
webhook_return(d, o, json_is_request_error) ==
    LET result == call_webhook(task[d].entry, o, json_is_request_error)
    IN  /\ task[d].pc = "waiting"
        /\ tool_calls' = IF result = <<"raise">> THEN tool_calls
                         ELSE [tool_calls EXCEPT ![task[d].tc] = step4_write(@, result)]
        /\ task' = [task EXCEPT ![d] = IdleTask]
        /\ UNCHANGED <<agents, tokens, payments, tools_cache, now, fin, audit>>

\* the handling task dies after the ToolCall creation commit and before the
\* finalization commit: nothing of it is left but the committed row
crash(d) ==
    /\ task[d].pc \in {"created", "waiting"}
    /\ task' = [task EXCEPT ![d] = IdleTask]
    /\ audit' = [audit EXCEPT ![task[d].tc].crashed = TRUE]
    /\ UNCHANGED <<agents, tokens, tool_calls, payments, tools_cache, now, fin>>

\* ------------------------------------------------------------- finalize
\* tool_call_finalize without the completed_at check
AlreadyCompleted_Missing(tc) == FALSE

\* "if tool_call.completed_at:" of tool_call_finalize
AlreadyCompleted(tc) == tc.completed_at # NoTime

\* server.py tool_call_finalize: the outcome of the query and the checks
finalize_status(tool_call_id) ==
    IF tool_call_id \notin ToolCallIds THEN "Tool call not found"
    ELSE IF AlreadyCompleted(tool_calls[tool_call_id])
         THEN "Tool call already completed"
    ELSE "ok"

\* server.py tool_call_finalize: the query and the two early returns
tool_call_finalize_read(f, tool_call_id, result) ==
    /\ fin[f].pc = "idle"
    /\ fin' = IF finalize_status(tool_call_id) # "ok" THEN fin
              ELSE [fin EXCEPT ![f] =
                       [pc |-> "write", tc |-> tool_call_id, result |-> result]]
    /\ UNCHANGED <<agents, tokens, tool_calls, payments, tools_cache, now, task, audit>>

\* server.py tool_call_finalize: the assignment and the commit; the call
\* returns "finalized"
tool_call_finalize_write(f) ==
    /\ fin[f].pc = "write"
    /\ tool_calls' = [tool_calls EXCEPT ![fin[f].tc].result = fin[f].result,
                                        ![fin[f].tc].completed_at = now]
    /\ audit' = [audit EXCEPT ![fin[f].tc].fin_ok = @ + 1]
    /\ fin' = [fin EXCEPT ![f] = IdleFin]
    /\ UNCHANGED <<agents, tokens, payments, tools_cache, now, task>>

\* -------------------------------------------------------------- polling
\* whether a stored result is a JSON object (a dict): the error results and
\* the finalize payloads are, a webhook body is when it parses to an object
IsDict(result) ==
    \/ result[1] \in {"error", "payload"}
    \/ result = <<"json", "{\"result\":42}">>

\* server.py tool_call_poll: the value returned
tool_call_poll_response(tool_call_id) ==
    IF tool_call_id \notin ToolCallIds THEN [error |-> "Tool call not found"]
    ELSE LET tool_call == tool_calls[tool_call_id]
         IN  [status |-> IF tool_call.completed_at # NoTime
                         THEN "completed" ELSE "pending",
              result |-> tool_call.result,
              completed_at |-> tool_call.completed_at,
              payment_status |-> tool_call.payment_status]

\* server.py tool_call_status: the value returned
tool_call_status_response(tool_call_id) ==
    IF tool_call_id \notin ToolCallIds THEN [error |-> "Tool call not found"]
    ELSE LET tool_call == tool_calls[tool_call_id]
         IN  [agent_id |-> tool_call.agent_id,
              caller_user_id |-> tool_call.caller_user_id,
              tool_name |-> tool_call.tool_name,
              result |-> tool_call.result,
              cost |-> tool_call.cost,
              payment_status |-> tool_call.payment_status,
              completed_at |-> tool_call.completed_at,
              status |-> IF tool_call.completed_at # NoTime
                         THEN "completed" ELSE "pending"]

\* routes/mcp.py get_tool_call: the response.  ToolCallResponse declares
\* result: Optional[Dict[str, Any]]; a stored result that is neither null
\* nor an object fails validation, which the handler answers with 500
get_tool_call_response(tool_call_id) ==
    IF tool_call_id \notin ToolCallIds THEN [error |-> "404 Tool call not found"]
    ELSE LET tool_call == tool_calls[tool_call_id]
         IN  IF tool_call.result # None /\ ~IsDict(tool_call.result)
             THEN [error |-> "500 Server error"]
             ELSE [agent_id |-> tool_call.agent_id,
                   caller_user_id |-> tool_call.caller_user_id,
                   tool_name |-> tool_call.tool_name,
                   result |-> tool_call.result,
                   cost |-> tool_call.cost,
                   payment_status |-> tool_call.payment_status,
                   completed_at |-> tool_call.completed_at]

\* the three polling operations read one row and write nothing
tool_call_poll(tool_call_id) ==
    /\ "payment_status" \in DOMAIN tool_call_poll_response(tool_call_id)
          <=> tool_call_id \in ToolCallIds
    /\ UNCHANGED vars

tool_call_status(tool_call_id) ==
    /\ "payment_status" \in DOMAIN tool_call_status_response(tool_call_id)
          <=> tool_call_id \in ToolCallIds
    /\ UNCHANGED vars

get_tool_call(tool_call_id) ==
    /\ "error" \in DOMAIN get_tool_call_response(tool_call_id)
          \/ tool_call_id \in ToolCallIds
    /\ UNCHANGED vars

\* ------------------------------------------------------------- payments
Amounts == {5}
Currencies == {"USD"}
SettlementStatuses == {"", "completed", "failed", "refunded"}

NoCheckout == 0                   \* a NULL coinbase_checkout_id

\* create_payment without the ToolCall lookup
create_payment_status_NoLookup(tool_call_id) == "ok"

\* routes/mcp.py create_payment: the error raised, or "ok"
create_payment_status(tool_call_id) ==
    IF tool_call_id \notin ToolCallIds THEN "404 Tool call not found" ELSE "ok"

\* routes/mcp.py create_payment (server.py payment_create is the same
\* operation) up to its first commit: the row is stored without a
\* checkout reference
create_payment(tool_call_id, amount, currency) ==
    /\ IF create_payment_status(tool_call_id) # "ok"
       THEN UNCHANGED payments
       ELSE /\ Len(payments) < MaxPayments
            /\ payments' = Append(payments,
                   [tool_call_id |-> tool_call_id, amount |-> amount,
                    currency |-> currency,
                    coinbase_checkout_id |-> NoCheckout,
                    status |-> "pending", completed_at |-> NoTime])
    /\ UNCHANGED <<agents, tokens, tool_calls, tools_cache, now, task, fin, audit>>

\* create_payment, second commit: the handler that stored row p assigns
\* the checkout reference, fresh for every payment, and returns
create_payment_checkout(p) ==
    /\ p \in PaymentIds
    /\ payments[p].coinbase_checkout_id = NoCheckout
    /\ payments' = [payments EXCEPT ![p].coinbase_checkout_id = p]
    /\ UNCHANGED <<agents, tokens, tool_calls, tools_cache, now, task, fin, audit>>

\* Payment.coinbase_checkout_id == checkout_id
PaymentByCheckout(checkout_id) ==
    {p \in PaymentIds : payments[p].coinbase_checkout_id = checkout_id}

\* handle_payment_webhook without the check of its two fields
settlement_status_NoValidation(checkout_id, status) ==
    IF PaymentByCheckout(checkout_id) = {} THEN "404 Payment not found"
    ELSE "webhook processed"

\* routes/mcp.py handle_payment_webhook: the response.  checkout_id
\* NoCheckout / status "": the field is missing
settlement_status(checkout_id, status) ==
    IF checkout_id = NoCheckout \/ status = "" THEN "400 Invalid webhook data"
    ELSE IF PaymentByCheckout(checkout_id) = {} THEN "404 Payment not found"
    ELSE "webhook processed"

\* the payment row after the settlement
settle_payment(payment, status) ==
    [payment EXCEPT !.status = status,
                    !.completed_at = IF status = "completed" THEN now ELSE @]

\* a settlement that also cascades a failed payment to the tool call
settle_tool_call_CascadeFailed(tc, status) ==
    IF status = "completed" THEN [tc EXCEPT !.payment_status = "paid"]
    ELSE [tc EXCEPT !.payment_status = "failed"]

\* a settlement that cascades only to a tool call that has completed
settle_tool_call_OnlyCompleted(tc, status) ==
    IF status = "completed" /\ tc.completed_at # NoTime
    THEN [tc EXCEPT !.payment_status = "paid"] ELSE tc

\* a settlement after which the tool call mirrors the payment
settle_tool_call_Mirror(tc, status) ==
    [tc EXCEPT !.payment_status = IF status = "completed" THEN "paid" ELSE "pending"]

\* a settlement that also marks the tool call completed
settle_tool_call_Completes(tc, status) ==
    IF status = "completed"
    THEN [tc EXCEPT !.payment_status = "paid", !.completed_at = now] ELSE tc

\* a settlement that does not cascade to the tool call
settle_tool_call_NoCascade(tc, status) == tc

\* the tool call row after the settlement
settle_tool_call(tc, status) ==
    IF status = "completed" THEN [tc EXCEPT !.payment_status = "paid"] ELSE tc

\* routes/mcp.py handle_payment_webhook
handle_payment_webhook(checkout_id, status) ==
    /\ IF settlement_status(checkout_id, status) # "webhook processed"
       THEN UNCHANGED <<payments, tool_calls>>
       ELSE LET p == CHOOSE x \in PaymentByCheckout(checkout_id) :
                         \A y \in PaymentByCheckout(checkout_id) : x <= y
                i == payments[p].tool_call_id
            IN  /\ payments' = [payments EXCEPT ![p] = settle_payment(@, status)]
                /\ tool_calls' = [tool_calls EXCEPT ![i] = settle_tool_call(@, status)]
    /\ UNCHANGED <<agents, tokens, tools_cache, now, task, fin, audit>>

\* ----------------------------------------------------------------- Next
TokenOps ==
    \E a \in DOMAIN agents \cup {UnknownAgent}, u \in UserIds, n \in DaysInputs :
        create_token(a, u, n)

AgentOps ==
    \/ \E a \in DOMAIN agents \cup {UnknownAgent}, p \in PriceInputs,
          t \in {"per-use", "bogus"} : update_agent(a, p, t)
    \/ \E a \in DOMAIN agents \cup {UnknownAgent} : delete_agent(a)

RegisterOps ==
    \E req \in RegisterInputs, a \in NewAgentIds : register_agent(req, a)

AgentReads ==
    \/ \E a \in DOMAIN agents \cup {UnknownAgent} : get_agent(a)
    \/ list_agents

McpEntry ==
    \E d \in Dispatchers, b \in 0..(MaxTokens + 1), m \in ToolNames \cup {""} :
        DynamicTool_call(d, b, m)

ToolEntry ==
    \E d \in Dispatchers, a \in AgentIds \cup {UnknownAgent}, t \in ToolNames,
       u \in CallerInputs : agent_call_tool(d, a, t, u)

WebhookOps ==
    \/ \E d \in Dispatchers : send_webhook(d)
    \/ \E d \in Dispatchers : no_webhook(d)
    \/ \E d \in Dispatchers, o \in WebhookOutcomes, j \in BOOLEAN :
          webhook_return(d, o, j)

CrashOps == \E d \in Dispatchers : crash(d)

FinalizeOps ==
    \/ \E f \in Finalizers, i \in 1..(MaxCalls + 1), r \in Payloads :
          tool_call_finalize_read(f, i, r)
    \/ \E f \in Finalizers : tool_call_finalize_write(f)

PollOps ==
    \/ \E i \in 1..(MaxCalls + 1) : tool_call_poll(i)
    \/ \E i \in 1..(MaxCalls + 1) : tool_call_status(i)
    \/ \E i \in 1..(MaxCalls + 1) : get_tool_call(i)

PaymentOps ==
    \/ \E i \in 1..(MaxCalls + 1), am \in Amounts, c \in Currencies :
          create_payment(i, am, c)
    \/ \E p \in 1..MaxPayments : create_payment_checkout(p)
    \/ \E c \in 0..(MaxPayments + 1), s \in SettlementStatuses :
          handle_payment_webhook(c, s)

\* every operation of the program
Next == TokenOps \/ RegisterOps \/ AgentOps \/ AgentReads \/ reload_agents \/ Tick \/ McpEntry \/ ToolEntry
        \/ WebhookOps \/ CrashOps \/ FinalizeOps \/ PollOps \/ PaymentOps

Spec == Init /\ [][Next]_vars

\* The properties are checked under three restrictions of Next, each to the
\* operations that read or write the state a group of properties concerns.

\* the dispatch core: issuance, both dispatch entry points, the webhook,
\* finalization, polling
NextCore == TokenOps \/ Tick \/ McpEntry \/ ToolEntry \/ WebhookOps \/ FinalizeOps
            \/ PollOps

SpecCore == Init /\ [][NextCore]_vars

\* authentication and the agent lifecycle
NextAuth == TokenOps \/ AgentOps \/ AgentReads \/ reload_agents \/ Tick
            \/ McpEntry \/ ToolEntry \/ WebhookOps

SpecAuth == Init /\ [][NextAuth]_vars

\* the agent registry: registration, update, delete, the reads, issuance
NextRegistry == RegisterOps \/ AgentOps \/ AgentReads \/ TokenOps \/ reload_agents

SpecRegistry == Init /\ [][NextRegistry]_vars

\* dispatch in a process that does not crash and whose webhook calls return
\* or time out: a dispatch that has started takes its next step
NextLive == TokenOps \/ McpEntry \/ ToolEntry \/ WebhookOps

DispatchProgress ==
    \A d \in Dispatchers :
        WF_vars(\/ send_webhook(d)
                \/ no_webhook(d)
                \/ \E o \in WebhookOutcomes, j \in BOOLEAN : webhook_return(d, o, j))

SpecLive == Init /\ [][NextLive]_vars /\ DispatchProgress

\* one finalize request
FinalizeOne ==
    \/ \E i \in 1..(MaxCalls + 1) :
          tool_call_finalize_read(1, i, <<"payload", "r1">>)
    \/ tool_call_finalize_write(1)

\* the cost and payment ledger of the calls made through agent_call_tool
NextLedger == AgentOps \/ ToolEntry \/ WebhookOps \/ FinalizeOne \/ PaymentOps

SpecLedger == Init /\ [][NextLedger]_vars

\* dispatch in a process whose handling tasks can die between the two
\* commits, with everything that can touch the ToolCall left behind
NextCrash == TokenOps \/ McpEntry \/ ToolEntry \/ WebhookOps \/ CrashOps
             \/ FinalizeOne \/ PollOps \/ PaymentOps

SpecCrash == Init /\ [][NextCrash]_vars

\* ----------------------------------------------------------- properties
Completed(i) == tool_calls[i].completed_at # NoTime

\* C1: two finalize calls in sequence on a pending ToolCall: the first
\* stores its payload and the completion time and succeeds; from then on a
\* finalize call on that id is answered "already completed", which leaves
\* the record as the first call wrote it.
C1_FinalizeTwice ==
    /\ [](\A i \in ToolCallIds :
            audit[i].fin_ok > 0 => finalize_status(i) = "Tool call already completed")
    /\ [][\A i \in ToolCallIds :
            audit'[i].fin_ok > audit[i].fin_ok =>
              \E f \in Finalizers :
                 /\ fin[f].pc = "write" /\ fin[f].tc = i /\ fin'[f].pc = "idle"
                 /\ tool_calls'[i].result = fin[f].result
                 /\ tool_calls'[i].completed_at = now]_vars

C1_Witness ==
    \E i \in ToolCallIds :
        audit[i].fin_ok = 1 /\ tool_calls[i].result \in Payloads /\ Completed(i)

\* C2: of two concurrent finalize requests on one pending ToolCall exactly
\* one succeeds: no ToolCall is finalized successfully more than once.
C2_OneFinalizeSucceeds == \A i \in ToolCallIds : audit[i].fin_ok <= 1

\* C3: once completed_at is set, result and completed_at never change
\* again: the step-4 write of a dispatch whose ToolCall was completed while
\* the dispatch waited for the webhook leaves both as they are.
C3_CompletedNeverChanges ==
    [][\A d \in Dispatchers :
         ( /\ task[d].pc = "waiting" /\ task'[d].pc = "idle"
           /\ Completed(task[d].tc) )
         => /\ tool_calls'[task[d].tc].result = tool_calls[task[d].tc].result
            /\ tool_calls'[task[d].tc].completed_at
                 = tool_calls[task[d].tc].completed_at]_vars

\* C4: for every ToolCall, completed_at is set if and only if result is
\* non-null.
C4_CompletedIffResult ==
    \A i \in ToolCallIds : Completed(i) <=> tool_calls[i].result # None

\* C5: no operation changes the cost of an existing ToolCall.
C5_CostFrozen ==
    [][\A i \in ToolCallIds : tool_calls'[i].cost = tool_calls[i].cost]_vars

C5_Witness ==
    \E i \in ToolCallIds :
        /\ tool_calls[i].cost # cost_in_eth(agents[tool_calls[i].agent_id].price)
        /\ Completed(i)

\* C6: a "completed" settlement for the checkout reference of a pending
\* Payment linked to a ToolCall with payment_status pending leaves the
\* Payment completed with completed_at set and the ToolCall paid.
C6_SettlementCascades ==
    [][\A p \in PaymentIds :
         ( /\ payments[p].status = "pending"
           /\ tool_calls[payments[p].tool_call_id].payment_status = "pending"
           /\ handle_payment_webhook(payments[p].coinbase_checkout_id, "completed") )
         => /\ payments'[p].status = "completed"
            /\ payments'[p].completed_at = now
            /\ payments'[p].completed_at # NoTime
            /\ tool_calls'[payments[p].tool_call_id].payment_status = "paid"]_vars

C6_Witness ==
    \E p \in PaymentIds :
        /\ payments[p].status = "completed"
        /\ payments[p].completed_at # NoTime
        /\ tool_calls[payments[p].tool_call_id].payment_status = "paid"

\* C7: authentication with a token past its expiry fails for every tool
\* name, so no ToolCall comes from a dispatch that presented such a token.
C7_ExpiredTokenFails ==
    \A i \in ToolCallIds : audit[i].entry = "mcp" => ~audit[i].expired

\* C8: a stored token that is active and not expired, bound to an active
\* agent declaring the tool, authenticates, and the request continues with
\* the token's agent as the resolved agent.
C8_ValidTokenAuthenticates ==
    /\ \A b \in TokenIds, m \in ToolNames :
          ( /\ tokens[b].is_active /\ ~Expired(b)
            /\ agents[tokens[b].agent_id].is_active
            /\ m \in agents[tokens[b].agent_id].tool_schema )
          => /\ auth_middleware(b, m) = "ok"
             /\ auth_context(b).agent = tokens[b].agent_id
    /\ \A i \in ToolCallIds :
          audit[i].entry = "mcp" => audit[i].for_agent = tokens[audit[i].bearer].agent_id

C8_Witness ==
    \E i \in ToolCallIds :
        /\ audit[i].entry = "mcp" /\ ~audit[i].expired
        /\ audit[i].for_active /\ audit[i].declared
        /\ audit[i].for_agent = tokens[audit[i].bearer].agent_id

\* C9: once an agent is soft-deleted, every dispatch for it fails on both
\* entry points, so no ToolCall and no webhook request comes from a
\* dispatch that started while its agent was inactive, also while the
\* loaded tool registry still holds the agent's tools.
C9_DeletedAgentNotDispatched ==
    /\ \A b \in TokenIds, m \in ToolNames \cup {""} :
          ~agents[tokens[b].agent_id].is_active => auth_middleware(b, m) # "ok"
    /\ \A a \in AgentIds, t \in ToolNames :
          ~agents[a].is_active => resolve_status(a, t) # "ok"
    /\ \A i \in ToolCallIds : audit[i].for_active

C9_Witness ==
    \E b \in TokenIds :
        /\ ~agents[tokens[b].agent_id].is_active
        /\ \E e \in tools_cache : e.agent = tokens[b].agent_id
        /\ \E d \in Dispatchers : task[d].pc = "idle"

\* C10 as stated: no ToolCall comes from a dispatch that names a tool the
\* agent's schema does not declare.
C10_UndeclaredToolRejected == \A i \in ToolCallIds : audit[i].declared

\* C10 amended: an otherwise valid dispatch naming an undeclared tool
\* creates no ToolCall and sends no webhook request, failing with
\* tool-not-found (a generic error when agent_call_tool finds the
\* available-tools data null or not a JSON object), except that
\* agent_call_tool lets the call through when the available-tools text is
\* not valid JSON.
C10_UndeclaredToolRejectedUnlessMalformed ==
    /\ \A i \in ToolCallIds :
          \/ audit[i].declared
          \/ /\ audit[i].entry = "tool"
             /\ agents[audit[i].for_agent].toolCallsExampleJson = "malformed"
    /\ \A b \in TokenIds, m \in ToolNames :
          ( /\ agents[tokens[b].agent_id].is_active
            /\ m \notin agents[tokens[b].agent_id].tool_schema )
          => auth_middleware(b, m) = "Tool not found for this agent"
    /\ \A a \in AgentIds, t \in ToolNames :
          (agents[a].is_active /\ t \notin agents[a].tool_schema) =>
            resolve_status(a, t) =
              CASE agents[a].toolCallsExampleJson \in {"object", "no_key"}
                     -> "Tool not found in agent's available tools"
                [] agents[a].toolCallsExampleJson \in {"null", "non_object"}
                     -> "error"
                [] OTHER -> "ok"

C10_Witness ==
    /\ \E i \in ToolCallIds :
          /\ ~audit[i].declared
          /\ Len(audit[i].sends) = 1
    /\ \E b \in TokenIds, m \in ToolNames :
          auth_middleware(b, m) = "Tool not found for this agent"

\* C11: every ToolCall was created by a dispatch that presented a stored,
\* active bearer token, on both dispatch entry points.
C11_EveryToolCallAuthenticated ==
    \A i \in ToolCallIds :
        audit[i].bearer \in TokenIds /\ tokens[audit[i].bearer].is_active

\* C12: a dispatch authenticated with a token bound to agent A creates a
\* ToolCall with agent_id A and calls A's endpoint only, also when another
\* agent declares a tool of the same name.
C12_DispatchBoundToTokenAgent ==
    \A i \in ToolCallIds :
        audit[i].entry = "mcp" =>
          /\ tool_calls[i].agent_id = tokens[audit[i].bearer].agent_id
          /\ \A k \in 1..Len(audit[i].sends) :
                audit[i].sends[k] = tokens[audit[i].bearer].agent_id

\* C13: the caller_user_id of every ToolCall is the user_id of the token
\* that authenticated the dispatch that created it.
C13_CallerIsTokenUser ==
    \A i \in ToolCallIds :
        /\ audit[i].entry = "mcp" =>
              tool_calls[i].caller_user_id = tokens[audit[i].bearer].user_id
        /\ TokenIds # {} =>
              tool_calls[i].caller_user_id \in {tokens[b].user_id : b \in TokenIds}

\* C14: when the webhook call fails at transport level, the ToolCall
\* created before the call gets result {error: "Webhook request failed:
\* <cause>"} and completed_at, its payment_status is left as it was
\* (pending), and the dispatch returns.
C14_TransportFailureFinalized ==
    [][\A d \in Dispatchers, j \in BOOLEAN :
         webhook_return(d, TransportFailure, j) =>
           /\ task[d].tc \in ToolCallIds
           /\ tool_calls'[task[d].tc].result =
                 <<"error", "Webhook request failed", "ConnectionError">>
           /\ tool_calls'[task[d].tc].completed_at = now
           /\ tool_calls'[task[d].tc].completed_at # NoTime
           /\ tool_calls'[task[d].tc].payment_status = "pending"
           /\ task'[d] = IdleTask]_vars

C14_Witness ==
    \E i \in ToolCallIds :
        /\ tool_calls[i].result = <<"error", "Webhook request failed", "ConnectionError">>
        /\ Completed(i)
        /\ tool_calls[i].payment_status = "pending"
        /\ Len(audit[i].sends) = 1

\* C15: polling changes no state and reports the record as stored: an
\* unknown id is answered not-found; a known id is answered with the
\* current result and payment_status, and with status completed exactly
\* when completed_at is set, by each of the three polling operations.
C15_PollReportsRecord ==
    \A i \in 1..(MaxCalls + 1) :
        IF i \notin ToolCallIds
        THEN /\ tool_call_poll_response(i) = [error |-> "Tool call not found"]
             /\ tool_call_status_response(i) = [error |-> "Tool call not found"]
             /\ get_tool_call_response(i) = [error |-> "404 Tool call not found"]
        ELSE /\ tool_call_poll_response(i).result = tool_calls[i].result
             /\ tool_call_poll_response(i).payment_status = tool_calls[i].payment_status
             /\ tool_call_poll_response(i).status = "completed" <=> Completed(i)
             /\ tool_call_poll_response(i).status = "pending" <=> ~Completed(i)
             /\ tool_call_status_response(i).result = tool_calls[i].result
             /\ tool_call_status_response(i).payment_status = tool_calls[i].payment_status
             /\ tool_call_status_response(i).status = "completed" <=> Completed(i)
             /\ "error" \notin DOMAIN get_tool_call_response(i)
             /\ get_tool_call_response(i).result = tool_calls[i].result
             /\ get_tool_call_response(i).payment_status = tool_calls[i].payment_status
             /\ get_tool_call_response(i).completed_at # NoTime <=> Completed(i)

\* C16: payment creation for an unknown tool_call_id fails with not-found
\* and stores no Payment; for an existing ToolCall it stores exactly one
\* new Payment, pending, with the given tool_call_id, amount and currency,
\* gives it a non-null checkout reference before it returns, and leaves
\* every ToolCall and every other Payment as it was.
C16_PaymentCreation ==
    /\ [](\A i \in 1..(MaxCalls + 1) :
            i \notin ToolCallIds => create_payment_status(i) = "404 Tool call not found")
    /\ [][\A i \in 1..(MaxCalls + 1), am \in Amounts, c \in Currencies :
            (payments' # payments /\ create_payment(i, am, c)) =>
              /\ i \in ToolCallIds
              /\ payments' = Append(payments,
                     [tool_call_id |-> i, amount |-> am, currency |-> c,
                      coinbase_checkout_id |-> NoCheckout,
                      status |-> "pending", completed_at |-> NoTime])
              /\ tool_calls' = tool_calls]_vars
    /\ [][\A p \in PaymentIds :
            (payments' # payments /\ create_payment_checkout(p)) =>
              /\ payments'[p].coinbase_checkout_id # NoCheckout
              /\ payments' = [payments EXCEPT
                                ![p].coinbase_checkout_id = payments'[p].coinbase_checkout_id]
              /\ payments'[p].status = "pending"
              /\ tool_calls' = tool_calls]_vars

C16_Witness ==
    \E p \in PaymentIds :
        /\ payments[p].coinbase_checkout_id # NoCheckout
        /\ payments[p].status = "pending"
        /\ payments[p].tool_call_id \in ToolCallIds

\* C17: a settlement notification without checkout_id or status is
\* answered as invalid, one whose checkout_id matches no Payment is
\* answered not-found, and neither modifies a Payment or a ToolCall.
C17_BadSettlementRejected ==
    /\ [](\A c \in 0..(MaxPayments + 1), st \in SettlementStatuses :
            /\ (c = NoCheckout \/ st = "")
                  => settlement_status(c, st) = "400 Invalid webhook data"
            /\ ( /\ c # NoCheckout /\ st # ""
                 /\ \A p \in PaymentIds : payments[p].coinbase_checkout_id # c )
                  => settlement_status(c, st) = "404 Payment not found")
    /\ [][\A c \in 0..(MaxPayments + 1), st \in SettlementStatuses :
            ( /\ \/ c = NoCheckout
                 \/ st = ""
                 \/ \A p \in PaymentIds : payments[p].coinbase_checkout_id # c
              /\ payments' # payments \/ tool_calls' # tool_calls )
            => ~handle_payment_webhook(c, st)]_vars

C17_Witness ==
    /\ \E p \in PaymentIds : payments[p].coinbase_checkout_id = NoCheckout
    /\ \E p \in PaymentIds :
          /\ payments[p].coinbase_checkout_id # NoCheckout
          /\ payments[p].status = "pending"
    /\ settlement_status(MaxPayments + 1, "completed") = "404 Payment not found"
    /\ settlement_status(NoCheckout, "completed") = "400 Invalid webhook data"

\* C18: every ToolCall has at most one Payment with status pending.
C18_OneOutstandingPayment ==
    \A i \in ToolCallIds :
        Cardinality({p \in PaymentIds :
                       /\ payments[p].tool_call_id = i
                       /\ payments[p].status = "pending"}) <= 1

C20_ExpiryFromDays ==
    [][\A a \in AgentIds, u \in UserIds, days \in DaysInputs :
         ( /\ days.given /\ ~days.null
           /\ tokens' # tokens /\ create_token(a, u, days) ) =>
           tokens'[Len(tokens')].expires_at = now + days.n]_vars

\* what C21 calls an invalid registration, and a validation (client) error
InvalidRegistration(req) ==
    \/ req.missing
    \/ req.name = ""
    \/ ~IsNumeric(req.price)
    \/ float(req.price) <= 0
    \/ /\ req.agentOwner.given
       /\ \/ ~req.agentOwner.prefix
          \/ req.agentOwner.length # AddressLength
          \/ ~req.agentOwner.hex

ClientErrors == {"400 Missing required fields", "400 Price must be a valid number",
                 "400 Price must be greater than 0",
                 "400 Invalid Ethereum address format", "422 Unprocessable Entity"}

\* C21: a registration with a missing required field, a price that is not
\* a number or is <= 0, or an owner that is not a well-formed address, is
\* answered with a validation (client) error, in every state in which the
\* registration can be submitted (an id is still free).
C21_InvalidRegistrationIsClientError ==
    \A req \in RegisterInputs, agent_id \in NewAgentIds \ DOMAIN agents :
        InvalidRegistration(req) => register_agent_status(req) \in ClientErrors

\* C22: in agent_call_tool, for an active agent whose available-tools
\* data is malformed, null, not an object, or an object without
\* available_tools, the call is let through for every tool name.
C22_UnusableSchemaFallsThrough ==
    \A a \in AgentIds, t \in ToolNames :
        ( /\ agents[a].is_active
          /\ agents[a].toolCallsExampleJson \in {"malformed", "null", "non_object", "no_key"}
          /\ IsNumeric(agents[a].price) )
        => resolve_status(a, t) = "ok"

\* C23: in a process that does not crash and whose webhook calls return,
\* every ToolCall that has been created eventually has completed_at set.
C23_EveryToolCallCompletes ==
    \A i \in 1..MaxCalls :
        (i \in ToolCallIds) ~> (i \in ToolCallIds /\ Completed(i))

\* C24: a dispatch for an agent without a configured endpoint sends no
\* request; its ToolCall, created before, gets result {error: "No webhook
\* configured for this agent"} and completed_at.
C24_NoWebhookFinalized ==
    /\ [](\A i \in ToolCallIds :
            tool_calls[i].result = <<"error", "No webhook configured for this agent">>
              => Completed(i) /\ audit[i].sends = <<>>)
    /\ [][\A d \in Dispatchers :
            (task[d].pc = "created" /\ task'[d].pc = "idle") =>
              /\ task[d].tc \in ToolCallIds
              /\ tool_calls'[task[d].tc].result =
                    <<"error", "No webhook configured for this agent">>
              /\ tool_calls'[task[d].tc].completed_at = now
              /\ tool_calls'[task[d].tc].completed_at # NoTime
              /\ audit' = audit]_vars

C24_Witness ==
    \E i \in ToolCallIds :
        /\ tool_calls[i].result = <<"error", "No webhook configured for this agent">>
        /\ Completed(i)
        /\ audit[i].sends = <<>>
        /\ \A d \in Dispatchers : task[d].pc = "idle"

\* C25 as stated: the ToolCall's result after a response with status 200
\* is the parsed body; after any other status it is the error with the
\* status code and the raw body.
C25_ResultFromResponse ==
    [][\A d \in Dispatchers, o \in WebhookOutcomes, j \in BOOLEAN :
         (~o.transport /\ task'[d] # task[d] /\ webhook_return(d, o, j)) =>
           tool_calls'[task[d].tc].result =
             IF o.code = "200" THEN response_json(o.body)
             ELSE <<"error", "Webhook call failed with status", o.code,
                    "details", o.body>>]_vars

\* C25 amended: after a response with status 200 whose body is valid JSON
\* the result is the parsed body (a JSON null body leaves the stored result
\* as it is); after any other status it is the error with the status code
\* and the raw body; after a 200 whose body is not valid JSON it is an
\* error, or the ToolCall is left as it is.
C25_ResultFromParsableResponse ==
    [][\A d \in Dispatchers, o \in WebhookOutcomes, j \in BOOLEAN :
         (~o.transport /\ task'[d] # task[d] /\ webhook_return(d, o, j)) =>
           LET old == tool_calls[task[d].tc]
               new == tool_calls'[task[d].tc]
           IN  IF o.code # "200"
               THEN new.result = <<"error", "Webhook call failed with status",
                                   o.code, "details", o.body>>
               ELSE IF JsonParses(o.body)
               THEN new.result = IF response_json(o.body) = None
                                 THEN old.result ELSE response_json(o.body)
               ELSE \/ new.result = <<"error", "Webhook request failed", "JSONDecodeError">>
                    \/ new.result = <<"error", "Webhook execution error">>
                    \/ new = old]_vars

C25_Witness ==
    /\ \E i \in ToolCallIds :
          /\ tool_calls[i].result \in
                {<<"json", "{\"result\":42}">>, <<"json", "[1]">>,
                 <<"error", "Webhook call failed with status", "201",
                   "details", "{\"result\":42}">>,
                 <<"error", "Webhook call failed with status", "500",
                   "details", "<html>">>}
          /\ Completed(i)
          /\ audit[i].fin_ok = 0

\* C26: at most one webhook request is ever sent for a ToolCall.
C26_SingleWebhookRequest ==
    \A i \in ToolCallIds : Len(audit[i].sends) <= 1

C26_Witness ==
    \E i \in ToolCallIds :
        /\ Len(audit[i].sends) = 1
        /\ Completed(i)
        /\ tool_calls[i].result[1] = "error"
        /\ \A d \in Dispatchers : task[d].pc = "idle"

\* C27 as stated: while a dispatch waits for the webhook, a poll of its
\* ToolCall keeps seeing status pending.
C27_PendingDuringWebhook ==
    [][\A d \in Dispatchers :
         ( /\ task[d].pc = "waiting" /\ task'[d].pc = "waiting"
           /\ tool_call_poll_response(task[d].tc).status = "pending" )
         => tool_call_poll_response(task[d].tc).status' = "pending"]_vars

\* C27 amended: a ToolCall is stored with payment_status pending, no
\* result and no completion time, and the webhook request that carries its
\* id is sent by its own dispatch after that commit; a poll during the
\* webhook call sees status pending unless a tool_call_finalize call has
\* completed the ToolCall meanwhile.
C27_CommitBeforeWebhook ==
    /\ [][ /\ Len(tool_calls') > Len(tool_calls) =>
                 /\ tool_calls'[Len(tool_calls')].payment_status = "pending"
                 /\ tool_calls'[Len(tool_calls')].result = None
                 /\ tool_calls'[Len(tool_calls')].completed_at = NoTime
                 /\ audit'[Len(tool_calls')].sends = <<>>
           /\ \A i \in ToolCallIds :
                 audit'[i].sends # audit[i].sends =>
                   \E d \in Dispatchers :
                      task[d].pc = "created" /\ task[d].tc = i ]_vars
    /\ [](\A d \in Dispatchers :
            (task[d].pc = "waiting" /\ audit[task[d].tc].fin_ok = 0)
              => tool_call_poll_response(task[d].tc).status = "pending")

C27_Witness ==
    \E d \in Dispatchers :
        /\ task[d].pc = "waiting"
        /\ Len(audit[task[d].tc].sends) = 1
        /\ tool_call_poll_response(task[d].tc).status = "pending"

\* C28: the cost stored on a new ToolCall is derived from the price its
\* agent has in the store when the ToolCall is created, on both dispatch
\* paths.
C28_CostFromPersistedPrice ==
    [][Len(tool_calls') > Len(tool_calls) =>
         LET new == tool_calls'[Len(tool_calls')]
         IN  new.cost \in {cost_in_eth(agents[new.agent_id].price),
                           pricing_cost(agents[new.agent_id].price)}]_vars

\* C29: a settlement whose status is not completed modifies no ToolCall,
\* and a ToolCall none of whose payments was ever settled as completed has
\* payment_status pending.
C29_FailedSettlementNoCascade ==
    /\ [][\A c \in 1..MaxPayments, st \in SettlementStatuses \ {"", "completed"} :
            (payments' # payments /\ handle_payment_webhook(c, st))
              => tool_calls' = tool_calls]_vars
    /\ [](\A i \in ToolCallIds :
            (\A p \in PaymentIds :
                payments[p].tool_call_id = i => payments[p].completed_at = NoTime)
            => tool_calls[i].payment_status = "pending")

C29_Witness ==
    \E p \in PaymentIds :
        /\ payments[p].status = "failed"
        /\ payments[p].completed_at = NoTime
        /\ tool_calls[payments[p].tool_call_id].payment_status = "pending"

\* C30: the status of every Payment is pending, completed or failed.
C30_PaymentStatusVocabulary ==
    \A p \in PaymentIds : payments[p].status \in {"pending", "completed", "failed"}

\* C31 as stated: a ToolCall whose handling task crashed between the
\* creation commit and the finalization commit keeps result = null and
\* completed_at = null for ever.
C31_CrashedStaysPending ==
    [][\A i \in ToolCallIds :
         ( /\ audit[i].crashed
           /\ tool_calls[i].result = None /\ tool_calls[i].completed_at = NoTime )
         => /\ tool_calls'[i].result = None
            /\ tool_calls'[i].completed_at = NoTime]_vars

\* C31 amended: a ToolCall whose handling task crashed between the two
\* commits keeps result = null and completed_at = null until a
\* tool_call_finalize call for it commits; no other operation (dispatch,
\* webhook return, poll, payment creation, settlement) changes either field.
C31_CrashedCompletedOnlyByFinalize ==
    /\ [](\A i \in ToolCallIds :
            audit[i].crashed /\ audit[i].fin_ok = 0 =>
                tool_calls[i].result = None /\ ~Completed(i))
    /\ [][\A i \in ToolCallIds :
            ( /\ audit[i].crashed
              /\ \/ tool_calls'[i].result # tool_calls[i].result
                 \/ tool_calls'[i].completed_at # tool_calls[i].completed_at )
            => \E f \in Finalizers :
                 fin[f].pc = "write" /\ fin[f].tc = i /\ tool_call_finalize_write(f)]_vars

C31_Witness ==
    \E i \in ToolCallIds :
        /\ audit[i].crashed
        /\ tool_calls[i].result = None /\ ~Completed(i)
        /\ tool_calls[i].payment_status = "paid"
        /\ \A d \in Dispatchers : task[d].pc = "idle"
        /\ \A f \in Finalizers : fin[f].pc = "idle"

\* C32: in every reachable state, a Payment with status completed
\* references a ToolCall whose payment_status is paid.
C32_CompletedPaymentMeansPaid ==
    \A p \in PaymentIds :
        payments[p].status = "completed" =>
            /\ payments[p].tool_call_id \in ToolCallIds
            /\ tool_calls[payments[p].tool_call_id].payment_status = "paid"

C32_Witness ==
    \E p, q \in PaymentIds :
        /\ p # q /\ payments[p].tool_call_id = payments[q].tool_call_id
        /\ payments[p].status = "completed"
        /\ payments[q].status = "pending"
        /\ tool_calls[payments[p].tool_call_id].payment_status = "paid"
        /\ ~Completed(payments[p].tool_call_id)

\* C33: a ToolCall starts with payment_status pending, and once it is paid
\* no operation gives it another value.
C33_PaidIsFinal ==
    [][/\ \A i \in ToolCallIds :
            tool_calls[i].payment_status = "paid" =>
                tool_calls'[i].payment_status = "paid"
       /\ \A i \in (1..Len(tool_calls')) \ ToolCallIds :
            tool_calls'[i].payment_status = "pending"]_vars

C33_Witness ==
    \E p \in PaymentIds :
        /\ payments[p].status = "failed"
        /\ payments[p].completed_at # NoTime
        /\ tool_calls[payments[p].tool_call_id].payment_status = "paid"
        /\ Completed(payments[p].tool_call_id)

\* C34: for every Payment, completed_at is set if and only if status is
\* completed.
C34_CompletedAtIffCompleted ==
    \A p \in PaymentIds :
        payments[p].completed_at # NoTime <=> payments[p].status = "completed"

\* C35: an inactive agent never becomes active again; update_agent on an
\* inactive agent changes at most its other fields, and the agent stays
\* hidden from get_agent and list_agents.
C35_InactiveIsFinal ==
    [][/\ \A a \in DOMAIN agents :
            ~agents[a].is_active =>
                /\ a \in DOMAIN agents'
                /\ ~agents'[a].is_active
                /\ a \notin listed_agents'
                /\ get_agent_status(a)' = "404 Agent not found"
       /\ \A a \in DOMAIN agents, p \in PriceInputs, t \in {"per-use", "bogus"} :
            (~agents[a].is_active /\ update_agent(a, p, t)) =>
                agents' = [agents EXCEPT ![a].price =
                              IF update_agent_status(a, p, t) = "ok" THEN p ELSE @]]_vars

C35_Witness ==
    /\ ~agents["a1"].is_active
    /\ agents["a1"].price = "2"
    /\ "a1" \notin listed_agents
    /\ get_agent_status("a1") = "404 Agent not found"

\* C36: a successful register_agent with owner identifier O stores an
\* agent whose agentOwner is O, which list_agents filtered by O returns.
C36_OwnerPersisted ==
    [][\A req \in RegisterInputs, a \in NewAgentIds :
         ( /\ agents' # agents
           /\ req.agentOwner.given
           /\ register_agent(req, a) )
         => /\ agents'[a].agentOwner = OwnerText(req.agentOwner)
            /\ a \in listed_by_owner(OwnerText(req.agentOwner))']_vars

====
